---- MODULE Spec2Model ----
(***************************************************************************)
(* Model of IssueReporterModel                                             *)
(* (src/vs/code/electron-sandbox/issue/issueReporterModel.ts).             *)
(*                                                                         *)
(* Values.  A JavaScript value that may be undefined is a sequence of      *)
(* length 0 (undefined) or 1 (the value).  A string is a sequence of text  *)
(* pieces, so that concatenation is \o, '' is <<>> and substr is SubSeq;   *)
(* "\n" is a piece of its own.  An object is a record whose fields are     *)
(* such optional values; an array is a sequence.                           *)
(***************************************************************************)
EXTENDS Integers, Sequences, FiniteSets, TLC

\* ------------------------------------------------------------------ bounds
\* Number of mutations in a run: update() calls and writes the caller makes
\* through the reference getData() returned.
MaxMutations == 2

\* ------------------------------------------------------------ JS values
Undefined == <<>>
Some(v) == <<v>>
IsDefined(m) == m # Undefined
Val(m) == m[1]
NL == "\n"
\* The three-backquote line of a Markdown code fence (a TLA+ string cannot hold
\* the backquote character).
Fence == "<code-fence>"

\* `${x}` for an optional string, number, boolean.
StrOfString(m) == IF IsDefined(m) THEN Val(m) ELSE <<"undefined">>
StrOfNumber(m) == IF IsDefined(m) THEN <<ToString(Val(m))>> ELSE <<"undefined">>

\* Truthiness of an optional boolean, number, string, object.
TruthyBool(m) == IsDefined(m) /\ Val(m)
TruthyNumber(m) == IsDefined(m) /\ Val(m) # 0
TruthyString(m) == IsDefined(m) /\ Val(m) # <<>>
TruthyObject(m) == IsDefined(m)

\* --------------------------------------------------------------- the record
IssueType == {"Bug", "PerformanceIssue", "FeatureRequest"}

Fields ==
  { "issueType", "issueDescription", "versionInfo", "systemInfo", "processInfo",
    "workspaceInfo", "includeSystemInfo", "includeWorkspaceInfo",
    "includeProcessInfo", "includeExtensions", "includeSearchedExtensions",
    "includeSettingsSearchDetails", "numberOfThemeExtesions", "allExtensions",
    "enabledNonThemeExtesions", "extensionsDisabled", "fileOnExtension",
    "selectedExtension", "actualSearchResults", "query", "filterResultCount" }

\* Object.assign(target, source): every own key of source overwrites target's,
\* whatever its value (undefined included); target's other keys are kept.
ObjectAssign(target, source) ==
  [k \in (DOMAIN target) \cup (DOMAIN source) |->
     IF k \in DOMAIN source THEN source[k] ELSE target[k]]

\* The record as the methods read it: a key the object does not have reads
\* as undefined.
Get(obj, k) == IF k \in DOMAIN obj THEN obj[k] ELSE Undefined

defaultData ==
  [ issueType |-> Some("Bug"),
    includeSystemInfo |-> Some(TRUE),
    includeWorkspaceInfo |-> Some(TRUE),
    includeProcessInfo |-> Some(TRUE),
    includeExtensions |-> Some(TRUE),
    includeSearchedExtensions |-> Some(TRUE),
    includeSettingsSearchDetails |-> Some(TRUE),
    allExtensions |-> Some(<<>>) ]

\* Faulty variant: the merge runs the wrong way round, so the defaults win.
constructor_defaultsWin(arg) ==
  IF IsDefined(arg) THEN ObjectAssign(Val(arg), defaultData) ELSE defaultData

\* constructor(initialData?): initialData is undefined or a partial record.
constructor(arg) ==
  IF IsDefined(arg) THEN ObjectAssign(defaultData, Val(arg)) ELSE defaultData

\* ------------------------------------------------- results of the renderers
\* A renderer returns a string, or a TypeError is thrown while it runs
\* (a property of undefined is read, Object.keys(undefined) is called).
Ok(s) == [threw |-> FALSE, text |-> s]
TypeError == [threw |-> TRUE, text |-> <<>>]
\* a + b, evaluated left to right: the first throw ends the evaluation.
Cat(a, b) == IF a.threw THEN a ELSE IF b.threw THEN b ELSE Ok(a.text \o b.text)

\* results.join(sep) of an array of rendered items.
RECURSIVE Join(_, _)
Join(rs, sep) ==
  IF Len(rs) = 0 THEN Ok(<<>>)
  ELSE IF Len(rs) = 1 THEN rs[1]
  ELSE Cat(Cat(rs[1], Ok(sep)), Join(Tail(rs), sep))

\* isRemoteDiagnosticError(x): the entry carries a host name and an error message.
isRemoteDiagnosticError(x) == TruthyString(x.hostName) /\ TruthyString(x.errorMessage)

\* Faulty variant: the issue type is not consulted.
fileOnExtension_flagOnly(d) == Get(d, "fileOnExtension")

\* ------------------------------------------------------------ fileOnExtension
\* fileOnExtension(): fileOnExtensionSupported && this._data.fileOnExtension;
\* a && b is a when a is falsy, else b.
fileOnExtension(d) ==
  LET fileOnExtensionSupported ==
        \/ Get(d, "issueType") = Some("Bug")
        \/ Get(d, "issueType") = Some("PerformanceIssue")
        \/ Get(d, "issueType") = Some("FeatureRequest")
  IN IF fileOnExtensionSupported THEN Get(d, "fileOnExtension") ELSE Some(FALSE)

\* Faulty variant: the line is rendered for any selected extension.
getExtensionVersion_anySelected(d) ==
  IF TruthyObject(Get(d, "selectedExtension"))
  THEN Ok(<<NL, "Extension version: ">>
          \o StrOfString(Val(Get(d, "selectedExtension")).version))
  ELSE Ok(<<>>)

getExtensionVersion(d) ==
  IF TruthyBool(fileOnExtension(d)) /\ TruthyObject(Get(d, "selectedExtension"))
  THEN Ok(<<NL, "Extension version: ">>
          \o StrOfString(Val(Get(d, "selectedExtension")).version))
  ELSE Ok(<<>>)

getIssueTypeTitle(d) ==
  IF Get(d, "issueType") = Some("Bug") THEN <<"Bug">>
  ELSE IF Get(d, "issueType") = Some("PerformanceIssue") THEN <<"Performance Issue">>
  ELSE <<"Feature Request">>

\* One entry of remoteData.map(...) in getRemoteOSes.
remoteOSLine(remote) ==
  IF isRemoteDiagnosticError(remote) THEN Ok(Val(remote.errorMessage))
  ELSE IF ~IsDefined(remote.machineInfo) THEN TypeError
  ELSE Ok(<<"Remote OS version: ">> \o StrOfString(Val(remote.machineInfo).os))

getRemoteOSes(d) ==
  LET si == Get(d, "systemInfo") IN
  IF ~TruthyObject(si) THEN Ok(<<>>)
  ELSE IF ~IsDefined(Val(si).remoteData) THEN TypeError
  ELSE LET rd == Val(Val(si).remoteData) IN
       IF Len(rd) # 0
       THEN Cat(Join([i \in 1..Len(rd) |-> remoteOSLine(rd[i])], <<NL>>), Ok(<<NL>>))
       ELSE Ok(<<>>)

\* ------------------------------------------------------- generateSystemInfoMd
\* Object.keys(gpuStatus).map(key => `${key}: ${gpuStatus[key]}`).join('<br>')
gpuStatusMd(gs) ==
  IF ~IsDefined(gs) THEN TypeError
  ELSE Join([i \in 1..Len(Val(gs)) |->
               Ok(<<Val(gs)[i][1], ": ", Val(gs)[i][2]>>)], <<"<br>">>)

linuxEnvMd(le) ==
  <<NL, "|DESKTOP_SESSION|">> \o StrOfString(le.desktopSession)
  \o <<"|", NL, "|XDG_CURRENT_DESKTOP|">> \o StrOfString(le.xdgCurrentDesktop)
  \o <<"|", NL, "|XDG_SESSION_DESKTOP|">> \o StrOfString(le.xdgSessionDesktop)
  \o <<"|", NL, "|XDG_SESSION_TYPE|">> \o StrOfString(le.xdgSessionType) \o <<"|">>

\* The body of remoteData.forEach(...) in generateSystemInfoMd.
remoteMd(remote) ==
  IF isRemoteDiagnosticError(remote) THEN Ok(<<NL, NL>> \o Val(remote.errorMessage))
  ELSE IF ~IsDefined(remote.machineInfo) THEN TypeError
  ELSE LET mi == Val(remote.machineInfo) IN
       Ok(<<NL, NL, "|Item|Value|", NL, "|---|---|", NL, "|Remote|">>
          \o StrOfString(remote.hostName)
          \o <<"|", NL, "|OS|">> \o StrOfString(mi.os)
          \o <<"|", NL, "|CPUs|">> \o StrOfString(mi.cpus)
          \o <<"|", NL, "|Memory (System)|">> \o StrOfString(mi.memory)
          \o <<"|", NL, "|VM|">> \o StrOfString(mi.vmHint) \o <<"|">>)

generateSystemInfoMd(d) ==
  LET si == Get(d, "systemInfo")
      head == Ok(<<"<details>", NL, "<summary>System Info</summary>", NL, NL,
                   "|Item|Value|", NL, "|---|---|", NL>>)
      rows ==
        IF ~TruthyObject(si) THEN Ok(<<>>)
        ELSE LET s == Val(si)
                 fixed ==
                   Cat(Cat(Ok(<<"|CPUs|">> \o StrOfString(s.cpus)
                              \o <<"|", NL, "|GPU Status|">>),
                           gpuStatusMd(s.gpuStatus)),
                       Ok(<<"|", NL, "|Load (avg)|">> \o StrOfString(s.load)
                          \o <<"|", NL, "|Memory (System)|">> \o StrOfString(s.memory)
                          \o <<"|", NL, "|Process Argv|">> \o StrOfString(s.processArgs)
                          \o <<"|", NL, "|Screen Reader|">> \o StrOfString(s.screenReader)
                          \o <<"|", NL, "|VM|">> \o StrOfString(s.vmHint) \o <<"|">>))
                 linux ==
                   IF TruthyObject(s.linuxEnv) THEN Ok(linuxEnvMd(Val(s.linuxEnv)))
                   ELSE Ok(<<>>)
                 remotes ==
                   IF ~IsDefined(s.remoteData) THEN TypeError
                   ELSE LET rd == Val(s.remoteData) IN
                        Join([i \in 1..Len(rd) |-> remoteMd(rd[i])], <<>>)
             IN Cat(Cat(fixed, linux), remotes)
  IN Cat(Cat(head, rows), Ok(<<NL, "</details>">>))

generateProcessInfoMd(d) ==
  Ok(<<"<details>", NL, "<summary>Process Info</summary>", NL, NL, Fence, NL>>
     \o StrOfString(Get(d, "processInfo"))
     \o <<NL, Fence, NL, NL, "</details>", NL>>)

generateWorkspaceInfoMd(d) ==
  Ok(<<"<details>", NL, "<summary>Workspace Info</summary>", NL, NL, Fence, NL>>
     \o StrOfString(Get(d, "workspaceInfo")) \o <<";">>
     \o <<NL, Fence, NL, NL, "</details>", NL>>)

\* e.publisher.substr(0, 3)
substr03(s) == SubSeq(s, 1, IF Len(s) < 3 THEN Len(s) ELSE 3)

\* One row of enabledNonThemeExtesions.map(...).
extensionRow(e) ==
  IF ~IsDefined(e.publisher) THEN TypeError
  ELSE Ok(StrOfString(e.name) \o <<"|">> \o substr03(Val(e.publisher))
          \o <<"|">> \o StrOfString(e.version))

generateExtensionsMd(d) ==
  LET n == Get(d, "numberOfThemeExtesions")
      en == Get(d, "enabledNonThemeExtesions")
      themeExclusionStr ==
        IF TruthyNumber(n)
        THEN <<NL, "(">> \o StrOfNumber(n) \o <<" theme extensions excluded)">>
        ELSE <<>>
      tableHeader == <<"Extension|Author (truncated)|Version", NL, "---|---|---">>
  IN IF TruthyBool(Get(d, "extensionsDisabled")) THEN Ok(<<"Extensions disabled">>)
     ELSE IF ~TruthyObject(en) THEN Ok(<<"Extensions: none">> \o themeExclusionStr)
     ELSE LET table == Join([i \in 1..Len(Val(en)) |-> extensionRow(Val(en)[i])], <<NL>>)
          IN Cat(Cat(Ok(<<"<details><summary>Extensions (", ToString(Len(Val(en))),
                          ")</summary>", NL, NL>> \o tableHeader \o <<NL>>),
                     table),
                 Ok(<<NL>> \o themeExclusionStr \o <<NL, NL, "</details>">>))

\* ------------------------------------------------------------------ getInfos
IsBugOrPerf(d) ==
  \/ Get(d, "issueType") = Some("Bug")
  \/ Get(d, "issueType") = Some("PerformanceIssue")

\* Faulty variant: the Extensions block does not look at the fileOnExtension flag.
getInfos_noFlagCheck(d) ==
  LET info1 ==
        IF IsBugOrPerf(d) /\ TruthyBool(Get(d, "includeSystemInfo"))
           /\ TruthyObject(Get(d, "systemInfo"))
        THEN generateSystemInfoMd(d) ELSE Ok(<<>>)
      info2 ==
        IF Get(d, "issueType") = Some("PerformanceIssue")
           /\ TruthyBool(Get(d, "includeProcessInfo"))
        THEN Cat(info1, generateProcessInfoMd(d)) ELSE info1
      info3 ==
        IF Get(d, "issueType") = Some("PerformanceIssue")
           /\ TruthyBool(Get(d, "includeWorkspaceInfo"))
        THEN Cat(info2, generateWorkspaceInfoMd(d)) ELSE info2
  IN IF IsBugOrPerf(d) /\ TruthyBool(Get(d, "includeExtensions"))
     THEN Cat(info3, generateExtensionsMd(d)) ELSE info3

\* Faulty variant: the Extensions block is appended first.
getInfos_extensionsFirst(d) ==
  LET info1 ==
        IF IsBugOrPerf(d) /\ ~TruthyBool(Get(d, "fileOnExtension"))
           /\ TruthyBool(Get(d, "includeExtensions"))
        THEN generateExtensionsMd(d) ELSE Ok(<<>>)
      info2 ==
        IF IsBugOrPerf(d) /\ TruthyBool(Get(d, "includeSystemInfo"))
           /\ TruthyObject(Get(d, "systemInfo"))
        THEN Cat(info1, generateSystemInfoMd(d)) ELSE info1
      info3 ==
        IF Get(d, "issueType") = Some("PerformanceIssue")
           /\ TruthyBool(Get(d, "includeProcessInfo"))
        THEN Cat(info2, generateProcessInfoMd(d)) ELSE info2
  IN IF Get(d, "issueType") = Some("PerformanceIssue")
        /\ TruthyBool(Get(d, "includeWorkspaceInfo"))
     THEN Cat(info3, generateWorkspaceInfoMd(d)) ELSE info3

getInfos(d) ==
  LET info1 ==
        IF IsBugOrPerf(d) /\ TruthyBool(Get(d, "includeSystemInfo"))
           /\ TruthyObject(Get(d, "systemInfo"))
        THEN generateSystemInfoMd(d) ELSE Ok(<<>>)
      info2 ==
        IF Get(d, "issueType") = Some("PerformanceIssue")
           /\ TruthyBool(Get(d, "includeProcessInfo"))
        THEN Cat(info1, generateProcessInfoMd(d)) ELSE info1
      info3 ==
        IF Get(d, "issueType") = Some("PerformanceIssue")
           /\ TruthyBool(Get(d, "includeWorkspaceInfo"))
        THEN Cat(info2, generateWorkspaceInfoMd(d)) ELSE info2
      info4 ==
        IF IsBugOrPerf(d) /\ ~TruthyBool(Get(d, "fileOnExtension"))
           /\ TruthyBool(Get(d, "includeExtensions"))
        THEN Cat(info3, generateExtensionsMd(d)) ELSE info3
  IN info4

\* ----------------------------------------------------------------- serialize
versionField(vi, f) == IF TruthyObject(vi) THEN StrOfString(Val(vi)[f]) ELSE <<"undefined">>

serialize(d) ==
  Cat(Cat(Cat(Cat(Cat(Cat(
    Ok(<<NL, "Issue Type: <b>">> \o getIssueTypeTitle(d) \o <<"</b>", NL, NL>>
       \o StrOfString(Get(d, "issueDescription")) \o <<NL>>),
    getExtensionVersion(d)),
    Ok(<<NL, "VS Code version: ">> \o versionField(Get(d, "versionInfo"), "vscodeVersion")
       \o <<NL, "OS version: ">> \o versionField(Get(d, "versionInfo"), "os") \o <<NL>>)),
    getRemoteOSes(d)),
    Ok(<<NL>>)),
    getInfos(d)),
    Ok(<<NL, "<!-- generated by issue reporter -->">>))

\* ------------------------------------------------- the values callers supply
Str(piece) == Some(<<piece>>)

ExtFoo ==
  [name |-> Str("Foo"), publisher |-> Some(<<"P", "u", "b", "l">>), version |-> Str("0.1")]
\* A publisher shorter than three characters.
ExtShort ==
  [name |-> Str("Bar"), publisher |-> Some(<<"a", "b">>), version |-> Str("2.0")]
ExtNoPublisher ==
  [name |-> Str("Baz"), publisher |-> Undefined, version |-> Str("3.0")]
ExtNoVersion ==
  [name |-> Str("Qux"), publisher |-> Some(<<"q">>), version |-> Undefined]
VersionInfo == [vscodeVersion |-> Str("1.39.2"), os |-> Str("Linux x64")]

LinuxEnv ==
  [desktopSession |-> Str("gnome"), xdgCurrentDesktop |-> Str("GNOME"),
   xdgSessionDesktop |-> Undefined, xdgSessionType |-> Str("x11")]
RemoteError ==
  [hostName |-> Str("host1"), errorMessage |-> Str("Unable to connect"),
   machineInfo |-> Undefined]
RemoteInfo ==
  [hostName |-> Str("host2"), errorMessage |-> Undefined,
   machineInfo |-> Some([os |-> Str("Linux arm"), cpus |-> Undefined,
                         memory |-> Str("8GB"), vmHint |-> Str("0%")])]
\* A remote entry that is neither an error nor carries machineInfo.
RemoteNoMachineInfo ==
  [hostName |-> Str("host3"), errorMessage |-> Undefined, machineInfo |-> Undefined]

SysLocal ==
  [cpus |-> Str("4 x 2400"),
   gpuStatus |-> Some(<< <<"2d_canvas", "enabled">>, <<"webgl", "off">> >>),
   load |-> Str("1, 2, 3"), memory |-> Str("16GB"), processArgs |-> Str("--verbose"),
   screenReader |-> Str("no"), vmHint |-> Str("0%"),
   linuxEnv |-> Undefined, remoteData |-> Some(<<>>)]
SysRemote ==
  [SysLocal EXCEPT !.cpus = Undefined, !.load = Undefined,
                   !.linuxEnv = Some(LinuxEnv),
                   !.remoteData = Some(<<RemoteError, RemoteInfo>>)]
SysNoRemoteData == [SysLocal EXCEPT !.remoteData = Undefined]
SysNoGpuStatus == [SysLocal EXCEPT !.gpuStatus = Undefined]
SysBadRemote == [SysLocal EXCEPT !.remoteData = Some(<<RemoteNoMachineInfo>>)]

\* The values a caller passes for a key; undefined is one of them.
FieldValues(k) ==
  CASE k = "issueType" -> {Some(t) : t \in IssueType} \cup {Undefined}
    [] k = "issueDescription" -> {Str("It crashes")}
    [] k = "versionInfo" -> {Some(VersionInfo)}
    [] k = "systemInfo" ->
         {Some(SysLocal), Some(SysRemote), Some(SysNoRemoteData),
          Some(SysNoGpuStatus), Some(SysBadRemote)}
    [] k = "processInfo" -> {Str("trace-data")}
    [] k = "workspaceInfo" -> {Str("ws-data")}
    [] k \in {"includeSystemInfo", "includeWorkspaceInfo", "includeProcessInfo",
              "includeSearchedExtensions"} -> {Some(FALSE)}
    [] k = "includeExtensions" -> {Some(FALSE), Some(TRUE)}
    [] k = "includeSettingsSearchDetails" -> {}
    [] k = "numberOfThemeExtesions" -> {Some(0), Some(2)}
    [] k = "allExtensions" -> {Some(<<ExtFoo>>)}
    [] k = "enabledNonThemeExtesions" ->
         {Some(<<>>), Some(<<ExtFoo>>), Some(<<ExtFoo, ExtShort>>),
          Some(<<ExtNoPublisher>>)}
    [] k = "extensionsDisabled" -> {Some(TRUE), Some(FALSE)}
    [] k = "fileOnExtension" -> {Some(TRUE), Some(FALSE), Undefined}
    [] k = "selectedExtension" -> {Some(ExtFoo), Some(ExtNoVersion)}
    [] k = "query" -> {Str("editor.fontSize")}
    [] k \in {"actualSearchResults", "filterResultCount"} -> {}

SinglePartials == UNION {{k :> v : v \in FieldValues(k)} : k \in Fields}

\* Partial records that name several keys at once.
PerformanceReport ==
  [issueType |-> Some("PerformanceIssue"), issueDescription |-> Str("It is slow"),
   versionInfo |-> Some(VersionInfo), systemInfo |-> Some(SysRemote),
   processInfo |-> Str("trace-data"), workspaceInfo |-> Str("ws-data"),
   enabledNonThemeExtesions |-> Some(<<ExtFoo>>), numberOfThemeExtesions |-> Some(2)]
ExtensionReport ==
  [issueType |-> Some("Bug"), fileOnExtension |-> Some(TRUE),
   selectedExtension |-> Some(ExtFoo), issueDescription |-> Str("It crashes")]
FeatureReport ==
  [issueType |-> Some("FeatureRequest"), systemInfo |-> Some(SysLocal),
   fileOnExtension |-> Some(FALSE), includeSystemInfo |-> Some(TRUE)]
Cleared ==
  [issueType |-> Undefined, includeSystemInfo |-> Undefined,
   allExtensions |-> Undefined, fileOnExtension |-> Some(TRUE)]
SearchState ==
  [includeSettingsSearchDetails |-> Some(FALSE), actualSearchResults |-> Some(<<>>),
   query |-> Str("editor.fontSize"), filterResultCount |-> Some(0)]
EmptyPartial == [k \in {} |-> Undefined]
MultiPartials ==
  {PerformanceReport, ExtensionReport, FeatureReport, Cleared, SearchState, EmptyPartial}

Partials == SinglePartials \cup MultiPartials

\* The partial records update() is called with.
UpdatePartials ==
  {"issueType" :> v : v \in FieldValues("issueType")}
  \cup {"fileOnExtension" :> v : v \in FieldValues("fileOnExtension")}
  \cup {k :> Some(FALSE) : k \in {"includeSystemInfo", "includeWorkspaceInfo",
                                  "includeProcessInfo", "includeExtensions"}}
  \cup { "includeExtensions" :> Some(TRUE),
         "systemInfo" :> Some(SysLocal),
         "systemInfo" :> Some(SysNoGpuStatus),
         "processInfo" :> Str("trace-data"),
         "workspaceInfo" :> Str("ws-data"),
         "numberOfThemeExtesions" :> Some(2),
         "enabledNonThemeExtesions" :> Some(<<ExtFoo, ExtShort>>),
         "enabledNonThemeExtesions" :> Some(<<ExtNoPublisher>>),
         "extensionsDisabled" :> Some(TRUE),
         "selectedExtension" :> Some(ExtNoVersion),
         "query" :> Str("editor.fontSize"),
         Cleared, ExtensionReport, EmptyPartial }

\* What the caller assigns through the record getData() returned.
WritePartials ==
  { "fileOnExtension" :> Some(TRUE), "issueType" :> Some("FeatureRequest"),
    "processInfo" :> Str("trace-data"), "includeExtensions" :> Some(FALSE) }

\* ---------------------------------------------------------------- the state
VARIABLES
  heap,         \* the objects: heap[a] is the object at address a
  ref,          \* the reference the caller holds from getData(), 0 when none
  call,         \* the last call: [op, arg]
  ret,          \* what the last call returned
  nMutations    \* update() calls and writes through ref made so far

vars == <<heap, ref, call, ret, nMutations>>

\* private readonly _data: the address of the record, fixed at construction.
_data == 1

\* new IssueReporterModel(initialData?)
Init ==
  \E initialData \in {Undefined} \cup {Some(p) : p \in Partials} :
    /\ heap = <<constructor(initialData)>>
    /\ ref = 0
    /\ call = [op |-> "constructor", arg |-> initialData]
    /\ ret = Undefined
    /\ nMutations = 0

\* Faulty variant: getData hands out a copy of the record.
getData_copy ==
  /\ heap' = Append(heap, heap[_data])
  /\ ref' = Len(heap) + 1
  /\ ret' = Some(Len(heap) + 1)
  /\ call' = [op |-> "getData", arg |-> Undefined]
  /\ UNCHANGED nMutations

\* getData(): return this._data
getData ==
  /\ ref' = _data
  /\ ret' = Some(_data)
  /\ call' = [op |-> "getData", arg |-> Undefined]
  /\ UNCHANGED <<heap, nMutations>>

\* Faulty variant: a key whose value is undefined is not copied.
update_skipsUndefined(newData) ==
  /\ nMutations < MaxMutations
  /\ heap' = [heap EXCEPT ![_data] =
                 [k \in (DOMAIN @) \cup (DOMAIN newData) |->
                    IF k \in DOMAIN newData /\ IsDefined(newData[k])
                    THEN newData[k] ELSE Get(@, k)]]
  /\ nMutations' = nMutations + 1
  /\ call' = [op |-> "update", arg |-> Some(newData)]
  /\ ret' = Undefined
  /\ UNCHANGED ref

\* update(newData): Object.assign(this._data, newData)
update(newData) ==
  /\ nMutations < MaxMutations
  /\ heap' = [heap EXCEPT ![_data] = ObjectAssign(@, newData)]
  /\ nMutations' = nMutations + 1
  /\ call' = [op |-> "update", arg |-> Some(newData)]
  /\ ret' = Undefined
  /\ UNCHANGED ref

\* model.getData().key = value, by the caller that holds ref
WriteThroughRef(w) ==
  /\ ref # 0
  /\ nMutations < MaxMutations
  /\ heap' = [heap EXCEPT ![ref] = ObjectAssign(@, w)]
  /\ nMutations' = nMutations + 1
  /\ call' = [op |-> "write", arg |-> Some(w)]
  /\ ret' = Undefined
  /\ UNCHANGED ref

FileOnExtension ==
  /\ ret' = fileOnExtension(heap[_data])
  /\ call' = [op |-> "fileOnExtension", arg |-> Undefined]
  /\ UNCHANGED <<heap, ref, nMutations>>

Serialize ==
  /\ ret' = serialize(heap[_data])
  /\ call' = [op |-> "serialize", arg |-> Undefined]
  /\ UNCHANGED <<heap, ref, nMutations>>

Next ==
  \/ getData
  \/ \E p \in UpdatePartials : update(p)
  \/ \E w \in WritePartials : WriteThroughRef(w)
  \/ FileOnExtension
  \/ Serialize

Spec == Init /\ [][Next]_vars

\* ------------------------------------------------------- reading the output
\* The record the model owns.
Data == heap[_data]

Contains(t, piece) == \E i \in DOMAIN t : t[i] = piece
\* Index of the first occurrence of piece in t, 0 when there is none.
Pos(t, piece) ==
  IF Contains(t, piece)
  THEN CHOOSE i \in DOMAIN t : t[i] = piece /\ \A j \in 1..(i - 1) : t[j] # piece
  ELSE 0

SystemInfoMark == "<summary>System Info</summary>"
ProcessInfoMark == "<summary>Process Info</summary>"
WorkspaceInfoMark == "<summary>Workspace Info</summary>"
ExtensionsMarks ==
  {"Extensions disabled", "Extensions: none", "<details><summary>Extensions ("}
HasExtensions(t) == \E m \in ExtensionsMarks : Contains(t, m)
ExtensionsPos(t) ==
  IF HasExtensions(t)
  THEN CHOOSE i \in DOMAIN t : t[i] \in ExtensionsMarks
                               /\ \A j \in 1..(i - 1) : t[j] \notin ExtensionsMarks
  ELSE 0

\* The text between the opening fence line and the closing fence line of the
\* block whose summary is mark.
FenceBody(t, mark) ==
  LET open == Pos(t, mark) + 3
      close == CHOOSE j \in (open + 1)..Len(t) :
                 t[j] = Fence /\ \A i \in (open + 1)..(j - 1) : t[i] # Fence
  IN SubSeq(t, open + 2, close - 2)

\* serialize() was the last call and returned a string.
Serialized == call.op = "serialize" /\ ~ret.threw

\* ------------------------------------------------------------------- claims

\* C1: after update(p), every field named in p holds the value p supplies
\* (undefined and false included) and every other field holds the value it
\* had before the call.
C1_UpdateOverwritesNamedFieldsOnly ==
  [][call'.op = "update" =>
       LET p == Val(call'.arg) IN
       \A k \in Fields :
         Get(heap'[_data], k) = IF k \in DOMAIN p THEN p[k] ELSE Get(heap[_data], k)]_vars

\* update({issueType: undefined, ...}) has just cleared a field that had a value
\* and left the fields it does not name alone.
C1_Witness ==
  /\ call.op = "update"
  /\ Val(call.arg) = Cleared
  /\ Get(Data, "issueType") = Undefined
  /\ Get(Data, "fileOnExtension") = Some(TRUE)
  /\ Get(Data, "includeExtensions") = Some(TRUE)
  /\ Get(Data, "processInfo") = Str("trace-data")

\* C2: in every state reached by construction and updates, issueType has a
\* value.
C2_IssueTypeIsNeverUnset == IsDefined(Get(Data, "issueType"))

\* C3: serialize() never throws: it returns a complete string whichever
\* optional data is absent.
C3_SerializeNeverThrows == call.op = "serialize" => ~ret.threw

\* C4: the output of serialize() holds each conditional block exactly when the
\* block's guard holds on the record; none of them for a FeatureRequest.
C4_BlocksFollowTheirGuards ==
  Serialized =>
    LET t == ret.text
        type == Get(Data, "issueType")
        bugOrPerf == type \in {Some("Bug"), Some("PerformanceIssue")}
        perf == type = Some("PerformanceIssue")
    IN /\ Contains(t, SystemInfoMark) <=>
            (bugOrPerf /\ Get(Data, "includeSystemInfo") = Some(TRUE)
                       /\ IsDefined(Get(Data, "systemInfo")))
       /\ Contains(t, ProcessInfoMark) <=>
            (perf /\ Get(Data, "includeProcessInfo") = Some(TRUE))
       /\ Contains(t, WorkspaceInfoMark) <=>
            (perf /\ Get(Data, "includeWorkspaceInfo") = Some(TRUE))
       /\ HasExtensions(t) <=>
            (bugOrPerf /\ Get(Data, "fileOnExtension") # Some(TRUE)
                       /\ Get(Data, "includeExtensions") = Some(TRUE))
       /\ type = Some("FeatureRequest") =>
            /\ ~Contains(t, SystemInfoMark) /\ ~Contains(t, ProcessInfoMark)
            /\ ~Contains(t, WorkspaceInfoMark) /\ ~HasExtensions(t)

\* A performance report filed on an extension: three blocks, no Extensions
\* block although includeExtensions is set.
C4_Witness ==
  /\ Serialized
  /\ Get(Data, "issueType") = Some("PerformanceIssue")
  /\ Get(Data, "fileOnExtension") = Some(TRUE)
  /\ Get(Data, "includeExtensions") = Some(TRUE)
  /\ Contains(ret.text, SystemInfoMark)
  /\ Contains(ret.text, ProcessInfoMark)
  /\ Contains(ret.text, WorkspaceInfoMark)
  /\ ~HasExtensions(ret.text)

\* The extension-version line is due: fileOnExtension() is truthy and an
\* extension is selected.
ExtensionVersionDue(d) ==
  /\ Get(d, "issueType") \in {Some(x) : x \in IssueType}
  /\ Get(d, "fileOnExtension") = Some(TRUE)
  /\ IsDefined(Get(d, "selectedExtension"))

\* C5 as stated: the 'Extension version:' line is rendered exactly when
\* fileOnExtension() holds and an extension is selected, and otherwise no blank
\* line stands between the issue description and the 'VS Code version:' line.
C5_NoBlankLineInItsPlace ==
  Serialized =>
    LET t == ret.text
        v == Pos(t, "VS Code version: ")
    IN /\ Contains(t, "Extension version: ") <=> ExtensionVersionDue(Data)
       /\ ~ExtensionVersionDue(Data) => (t[v - 1] = NL /\ t[v - 2] # NL)

\* C5, amended: the 'Extension version: {version}' line is rendered exactly when
\* fileOnExtension() holds and an extension is selected, right above the
\* 'VS Code version:' line; otherwise the extension-version part is the empty
\* string, and the template line it stands on is left as one empty line
\* between the issue description and the 'VS Code version:' line.
C5_ExtensionVersionLine ==
  Serialized =>
    LET t == ret.text
        v == Pos(t, "VS Code version: ")
        desc == StrOfString(Get(Data, "issueDescription"))
    IN /\ Contains(t, "Extension version: ") <=> ExtensionVersionDue(Data)
       /\ ExtensionVersionDue(Data) =>
            LET line == <<"Extension version: ">>
                        \o StrOfString(Val(Get(Data, "selectedExtension")).version)
            IN /\ t[v - 1] = NL
               /\ SubSeq(t, v - 1 - Len(line), v - 2) = line
               /\ t[v - 2 - Len(line)] = NL
       /\ ~ExtensionVersionDue(Data) =>
            /\ t[v - 1] = NL
            /\ t[v - 2] = NL
            /\ SubSeq(t, v - 2 - Len(desc), v - 3) = desc

\* A report filed on extension Foo 0.1 has been serialized with its line.
C5_Witness ==
  /\ Serialized
  /\ ExtensionVersionDue(Data)
  /\ Val(Get(Data, "selectedExtension")).version = Str("0.1")
  /\ Contains(ret.text, "Extension version: ")

\* C6: the body of the Process Info fence is exactly the text of processInfo,
\* and the body of the Workspace Info fence exactly the text of workspaceInfo.
C6_FenceBodyIsTheRawText ==
  Serialized =>
    /\ Contains(ret.text, ProcessInfoMark) =>
         FenceBody(ret.text, ProcessInfoMark) = StrOfString(Get(Data, "processInfo"))
    /\ Contains(ret.text, WorkspaceInfoMark) =>
         FenceBody(ret.text, WorkspaceInfoMark) = StrOfString(Get(Data, "workspaceInfo"))

\* C7 as stated: fileOnExtension() returns the boolean true when issueType is
\* one of the three types and the flag is set, and the boolean false otherwise.
C7_ReturnsABoolean ==
  call.op = "fileOnExtension" =>
    ret = Some(/\ Get(Data, "issueType") \in {Some(x) : x \in IssueType}
               /\ Get(Data, "fileOnExtension") = Some(TRUE))

\* C7, amended: fileOnExtension() returns true exactly when issueType is one of
\* the three types and the flag is true; false when the flag is false or
\* issueType is none of the three; undefined when issueType is one of the three
\* and the flag is unset.
C7_FileOnExtensionDecision ==
  call.op = "fileOnExtension" =>
    LET supported == Get(Data, "issueType") \in {Some(x) : x \in IssueType}
        flag == Get(Data, "fileOnExtension")
    IN /\ ret = Some(TRUE) <=> (supported /\ flag = Some(TRUE))
       /\ flag = Some(FALSE) => ret = Some(FALSE)
       /\ ~supported => ret = Some(FALSE)
       /\ (supported /\ flag = Undefined) => ret = Undefined

\* fileOnExtension() has answered true for a feature request.
C7_Witness ==
  /\ call.op = "fileOnExtension"
  /\ Get(Data, "issueType") = Some("FeatureRequest")
  /\ Get(Data, "fileOnExtension") = Some(TRUE)
  /\ ret = Some(TRUE)

\* C8: the constructed record is the defaults (issueType Bug, the six include
\* flags true, allExtensions empty) overridden by the keys of the partial,
\* whatever their values; without argument it is the defaults.
C8_ConstructedRecord ==
  call.op = "constructor" =>
    \A k \in Fields :
      Get(Data, k) =
        IF IsDefined(call.arg) /\ k \in DOMAIN Val(call.arg) THEN Val(call.arg)[k]
        ELSE IF k = "issueType" THEN Some("Bug")
        ELSE IF k \in {"includeSystemInfo", "includeWorkspaceInfo", "includeProcessInfo",
                       "includeExtensions", "includeSearchedExtensions",
                       "includeSettingsSearchDetails"} THEN Some(TRUE)
        ELSE IF k = "allExtensions" THEN Some(<<>>)
        ELSE Undefined

\* A model constructed with a partial whose issueType, includeSystemInfo and
\* allExtensions are undefined: they overwrite the defaults.
C8_Witness ==
  /\ call.op = "constructor"
  /\ call.arg = Some(Cleared)
  /\ Get(Data, "issueType") = Undefined
  /\ Get(Data, "includeSystemInfo") = Undefined
  /\ Get(Data, "includeProcessInfo") = Some(TRUE)

\* C9: getData() returns the record itself, the same at every call; an update
\* shows through a reference obtained earlier; what is written through the
\* reference is what the next getData(), fileOnExtension() and serialize()
\* see; and the three of them leave the record as it is.
C9_GetDataReturnsTheLiveRecord ==
  [][/\ call'.op = "getData" => (ret' = Some(_data) /\ ref' = _data)
     /\ call'.op \in {"getData", "fileOnExtension", "serialize"} => heap' = heap
     /\ (call'.op = "update" /\ ref # 0) =>
          \A k \in DOMAIN Val(call'.arg) : Get(heap'[ref], k) = Val(call'.arg)[k]
     /\ call'.op = "write" =>
          \A k \in DOMAIN Val(call'.arg) : Get(heap'[_data], k) = Val(call'.arg)[k]
     /\ (call.op = "write" /\ call'.op = "getData") => heap[Val(ret')] = heap[ref]
     /\ (call.op = "write" /\ call'.op = "fileOnExtension") =>
          ret' = fileOnExtension(heap[ref])
     /\ (call.op = "write" /\ call'.op = "serialize") => ret' = serialize(heap[ref])
    ]_vars

\* The caller has set fileOnExtension through the reference and the model's
\* record holds it.
C9_Witness ==
  /\ call.op = "write"
  /\ ref = _data
  /\ Val(call.arg) = ("fileOnExtension" :> Some(TRUE))
  /\ Get(Data, "fileOnExtension") = Some(TRUE)

\* C10: in the output of serialize() the blocks that are present stand in the
\* order System Info, Process Info, Workspace Info, Extensions, all of them
\* after the version and remote-OS lines and before the closing marker.
C10_BlocksInFixedOrder ==
  Serialized =>
    LET t == ret.text
        blocks == <<Pos(t, SystemInfoMark), Pos(t, ProcessInfoMark),
                    Pos(t, WorkspaceInfoMark), ExtensionsPos(t)>>
        last == Pos(t, "<!-- generated by issue reporter -->")
    IN /\ \A i, j \in 1..4 :
            (i < j /\ blocks[i] # 0 /\ blocks[j] # 0) => blocks[i] < blocks[j]
       /\ \A i \in 1..4 :
            blocks[i] # 0 =>
              /\ Pos(t, "VS Code version: ") < blocks[i]
              /\ Pos(t, "OS version: ") < blocks[i]
              /\ \A r \in DOMAIN t : t[r] = "Remote OS version: " => r < blocks[i]
              /\ blocks[i] < last
       /\ last = Len(t)

\* All four blocks and a remote-OS line are in the output.
C10_Witness ==
  /\ Serialized
  /\ Contains(ret.text, "Remote OS version: ")
  /\ Contains(ret.text, SystemInfoMark)
  /\ Contains(ret.text, ProcessInfoMark)
  /\ Contains(ret.text, WorkspaceInfoMark)
  /\ HasExtensions(ret.text)

====
